---- MODULE Spec2Model ----
(***************************************************************************)
(* Model of the operation-hooks engine                                     *)
(* (lib/OperationHooksCorePlugin.js): the generator registry and its lock, *)
(* the per-field aggregation and priority sort of hook callbacks, the      *)
(* per-field build hook that wraps a root resolver, and the wrapped        *)
(* resolver's before / resolve / after / error pipeline.                   *)
(***************************************************************************)
EXTENDS Integers, Sequences, FiniteSets, TLC

(***************************************************************************)
(* Bounds                                                                  *)
(***************************************************************************)
\* longest generator registry explored
MaxGens == 2
\* number of distinct error values a hook or the resolver may throw
MaxErrors == 1

(***************************************************************************)
(* Values flowing through a hook chain.  Every value is a record with the  *)
(* same shape so that any two values can be compared (=== in the source).  *)
(***************************************************************************)
Null == [t |-> "null", id |-> 0]
Undefined == [t |-> "undefined", id |-> 0]
\* Symbol("before") allocated by invocation i: identical only to itself
Sentinel(i) == [t |-> "symbol", id |-> i]
\* new Error("Logic error: operation hook returned 'undefined'.")
LogicError == [t |-> "error", id |-> 0]
\* errors thrown by hooks and resolvers
Errors == {[t |-> "error", id |-> k] : k \in 1..MaxErrors}
\* the source object (op) the host passes to invocation i
Source(i) == [t |-> "source", id |-> i]
\* a value produced by the original resolver
ResolverValue == [t |-> "value", id |-> 1]
\* a derivative value produced by a hook (e.g. out + "(AFTER)")
HookValue == [t |-> "value", id |-> 2]

(***************************************************************************)
(* The schema under construction: field contexts supplied by the host.     *)
(***************************************************************************)
Stages == {"before", "after", "error"}

FieldContext ==
  [ QueryEcho    |-> [Self |-> "Query",    fieldName |-> "echo",
                      isRootQuery |-> TRUE,  isRootMutation |-> FALSE,
                      isRootSubscription |-> FALSE, hasResolve |-> TRUE],
    MutationEcho |-> [Self |-> "Mutation", fieldName |-> "echo",
                      isRootQuery |-> FALSE, isRootMutation |-> TRUE,
                      isRootSubscription |-> FALSE, hasResolve |-> TRUE],
    QueryId      |-> [Self |-> "Query",    fieldName |-> "id",
                      isRootQuery |-> TRUE,  isRootMutation |-> FALSE,
                      isRootSubscription |-> FALSE, hasResolve |-> FALSE],
    EchoPayloadText |-> [Self |-> "EchoPayload", fieldName |-> "text",
                      isRootQuery |-> FALSE, isRootMutation |-> FALSE,
                      isRootSubscription |-> FALSE, hasResolve |-> FALSE] ]

Fields == DOMAIN FieldContext

\* the schemas the host may build: with and without a root field that relies
\* on the default resolver
Schemas == {Fields, Fields \ {"QueryId"}}

\* `${Self.name}.${fieldName}`
FieldName(f) == FieldContext[f].Self \o "." \o FieldContext[f].fieldName

\* the order in which the host defines the fields (Object.values order)
FieldOrder == <<"QueryEcho", "QueryId", "MutationEcho", "EchoPayloadText">>

IsRoot(f) ==
  \/ FieldContext[f].isRootQuery
  \/ FieldContext[f].isRootMutation
  \/ FieldContext[f].isRootSubscription

(***************************************************************************)
(* Hook generators.  A generator maps a field context to null or to a      *)
(* bundle: a record with any of the keys before / after / error, each a    *)
(* sequence of descriptors [priority, callback].                           *)
(***************************************************************************)
D(p, c) == [priority |-> p, callback |-> c]

NoBundle == [applies |-> FALSE, bundle |-> <<>>]
Bundle(b) == [applies |-> TRUE, bundle |-> b]

\* src/OperationMessagesPlugin.ts: the messages generator, every field
MessagesGen(f) ==
  Bundle([before |-> <<D(100, "addMessagesToMeta"), D(900, "validateMessages")>>,
          after  |-> <<D(900, "validateMessages")>>,
          error  |-> <<D(500, "addMessagesToError")>>])

\* lib/OperationMessagesMutationPreFlightPlugin.js: root mutations only
PreflightGen(f) ==
  IF ~FieldContext[f].isRootMutation
    THEN NoBundle
    ELSE Bundle([before |-> <<D(990, "preflight")>>])

\* the test suite's late generator: () => ({})
EmptyGen(f) == Bundle(<<>>)

\* the ordering scenario: priorities listed as 500, 100, 900
OrderGen(f) ==
  Bundle([before |-> <<D(500, "b500"), D(100, "b100"), D(900, "b900")>>,
          after  |-> <<>>,
          error  |-> <<D(900, "e900"), D(500, "e500")>>])

\* equal priorities inside one bundle and against the messages generator
TieGen(f) ==
  Bundle([before |-> <<D(900, "tieA"), D(900, "tieB")>>,
          after  |-> <<D(900, "tieA"), D(500, "a500")>>,
          error  |-> <<D(500, "tieA"), D(500, "tieB")>>])

GenNames == {"messages", "preflight", "empty", "order", "tie"}

\* gen(context)
CallGen(g, f) ==
  CASE g = "messages"  -> MessagesGen(f)
    [] g = "preflight" -> PreflightGen(f)
    [] g = "empty"     -> EmptyGen(f)
    [] g = "order"     -> OrderGen(f)
    [] g = "tie"       -> TieGen(f)

(***************************************************************************)
(* State                                                                   *)
(***************************************************************************)
VARIABLES
  schema,       \* the fields of the schema being built (chosen by the host)
  generators,   \* _operationHookGenerators
  locked,       \* locked
  lastOp,       \* the last call made on the build object and how it ended
  buildState,   \* "building", "failed" (a build hook threw) or "finalized"
  field,        \* per field: what the per-field build hook returned
  callbacks,    \* per field: the callbacks captured by its wrapped resolver
  genCalls,     \* per field: the generators called while building it, in order
  buildError,   \* the error the last build call threw (kind, fields named), if any
  inv           \* per invocation of a wrapped resolver: its position and data

vars == <<schema, generators, locked, lastOp, buildState, field, callbacks,
          genCalls, buildError, inv>>

buildVars == <<schema, generators, locked, lastOp, buildState, field, callbacks,
               genCalls, buildError>>

(***************************************************************************)
(* applyHooks's comparator and Array.prototype.sort                        *)
(***************************************************************************)
\* the comparator with its operands swapped
hookSortDescending(a, b) == b.priority - a.priority

\* hookSort(a, b)
hookSort(a, b) == a.priority - b.priority

\* an insertion step that puts x before the elements that compare equal to it
RECURSIVE SortInsertBeforeEqual(_, _)
SortInsertBeforeEqual(x, s) ==
  IF s = <<>> THEN <<x>>
  ELSE IF hookSort(s[1], x) >= 0 THEN <<x>> \o s
  ELSE <<s[1]>> \o SortInsertBeforeEqual(x, Tail(s))

\* One insertion step of the sort: x goes before the first element that the
\* comparator orders after it, so elements that compare equal keep their
\* order (Array.prototype.sort is stable).
RECURSIVE SortInsert(_, _)
SortInsert(x, s) ==
  IF s = <<>> THEN <<x>>
  ELSE IF hookSort(s[1], x) > 0 THEN <<x>> \o s
  ELSE <<s[1]>> \o SortInsert(x, Tail(s))

\* arr.sort(hookSort)
RECURSIVE ArraySort(_)
ArraySort(arr) ==
  IF arr = <<>> THEN <<>>
  ELSE SortInsert(arr[Len(arr)], ArraySort(SubSeq(arr, 1, Len(arr) - 1)))

(***************************************************************************)
(* _getOperationHookCallbacksForContext                                    *)
(***************************************************************************)
\* _operationHookGenerators.map(gen => gen(context)).filter(_ => _)
RECURSIVE GeneratedHooks(_, _)
GeneratedHooks(gens, f) ==
  IF gens = <<>> THEN <<>>
  ELSE LET r == CallGen(gens[1], f)
       IN (IF r.applies THEN <<r.bundle>> ELSE <<>>) \o GeneratedHooks(Tail(gens), f)

\* if (oneHook[stage]) { list.push(...oneHook[stage]); }
PushStage(list, oneHook, stage) ==
  IF stage \in DOMAIN oneHook THEN list \o oneHook[stage] ELSE list

\* generatedHooks.forEach(...) for one of the three arrays
RECURSIVE Collect(_, _)
Collect(hooks, stage) ==
  IF hooks = <<>> THEN <<>>
  ELSE PushStage(Collect(SubSeq(hooks, 1, Len(hooks) - 1), stage),
                 hooks[Len(hooks)], stage)

\* list.map(hook => hook.callback)
CallbacksOf(list) == [k \in 1..Len(list) |-> list[k].callback]

NullCallbacks == [isNull |-> TRUE, before |-> <<>>, after |-> <<>>, error |-> <<>>]

\* one of before / after / error once filled and sorted (still descriptors)
SortedHooks(gens, f, stage) == ArraySort(Collect(GeneratedHooks(gens, f), stage))

\* aggregation giving up as soon as one of the three arrays is empty
GetOperationHookCallbacksForContextAnyEmpty(gens, f) ==
  LET generatedHooks == GeneratedHooks(gens, f)
      before == Collect(generatedHooks, "before")
      after  == Collect(generatedHooks, "after")
      error  == Collect(generatedHooks, "error")
  IN IF Len(before) = 0 \/ Len(after) = 0 \/ Len(error) = 0
       THEN NullCallbacks
       ELSE [isNull |-> FALSE,
             before |-> CallbacksOf(SortedHooks(gens, f, "before")),
             after  |-> CallbacksOf(SortedHooks(gens, f, "after")),
             error  |-> CallbacksOf(SortedHooks(gens, f, "error"))]

\* an aggregation that returns the (empty) lists instead of null
GetOperationHookCallbacksForContextNeverNull(gens, f) ==
  [isNull |-> FALSE,
   before |-> CallbacksOf(SortedHooks(gens, f, "before")),
   after  |-> CallbacksOf(SortedHooks(gens, f, "after")),
   error  |-> CallbacksOf(SortedHooks(gens, f, "error"))]

\* the value returned by _getOperationHookCallbacksForContext(context)
GetOperationHookCallbacksForContext(gens, f) ==
  LET generatedHooks == GeneratedHooks(gens, f)
      before == Collect(generatedHooks, "before")
      after  == Collect(generatedHooks, "after")
      error  == Collect(generatedHooks, "error")
  IN IF Len(before) = 0 /\ Len(after) = 0 /\ Len(error) = 0
       THEN NullCallbacks
       ELSE [isNull |-> FALSE,
             before |-> CallbacksOf(SortedHooks(gens, f, "before")),
             after  |-> CallbacksOf(SortedHooks(gens, f, "after")),
             error  |-> CallbacksOf(SortedHooks(gens, f, "error"))]

(***************************************************************************)
(* The build: registration, the per-field hook, finalize                   *)
(***************************************************************************)
Op(op, arg, threw) == [op |-> op, arg |-> arg, threw |-> threw]

\* new Error(...): which of the plugin's errors, and the fields its message names
BuildError(kind, names) == [kind |-> kind, fields |-> names]

\* the call returned normally
NoError == BuildError("none", <<>>)

\* addOperationHook without the locked check
AddOperationHookIgnoringLock(fn) ==
  /\ buildState = "building"
  /\ Len(generators) < MaxGens
  /\ generators' = Append(generators, fn)
  /\ lastOp' = Op("addOperationHook", fn, FALSE)
  /\ buildError' = NoError
  /\ UNCHANGED <<schema, locked, buildState, field, callbacks, genCalls, inv>>

\* addOperationHook pushing the generator before it checks the lock
AddOperationHookPushesThenThrows(fn) ==
  /\ buildState = "building"
  /\ IF locked
       THEN /\ lastOp' = Op("addOperationHook", fn, TRUE)
            /\ buildError' = BuildError("registrationLocked", <<>>)
            /\ generators' = IF Len(generators) < MaxGens
                               THEN Append(generators, fn)
                               ELSE generators
       ELSE /\ Len(generators) < MaxGens
            /\ generators' = Append(generators, fn)
            /\ lastOp' = Op("addOperationHook", fn, FALSE)
            /\ buildError' = NoError
  /\ UNCHANGED <<schema, locked, buildState, field, callbacks, genCalls, inv>>

\* build.addOperationHook(fn)
AddOperationHook(fn) ==
  /\ buildState = "building"
  /\ IF locked
       THEN /\ lastOp' = Op("addOperationHook", fn, TRUE)
            /\ buildError' = BuildError("registrationLocked", <<>>)
            /\ UNCHANGED generators
       ELSE /\ Len(generators) < MaxGens
            /\ generators' = Append(generators, fn)
            /\ lastOp' = Op("addOperationHook", fn, FALSE)
            /\ buildError' = NoError
  /\ UNCHANGED <<schema, locked, buildState, field, callbacks, genCalls, inv>>

\* the per-field hook without the early return for non-root fields
FieldHookEveryField(f) ==
  /\ buildState = "building"
  /\ f \in schema
  /\ ~field[f].processed
  /\ lastOp' = Op("fieldHook", f,
                  /\ ~GetOperationHookCallbacksForContext(generators, f).isNull
                  /\ field[f].resolve = "none")
  /\ locked' = TRUE
  /\ genCalls' = [genCalls EXCEPT ![f] = generators]
  /\ LET cbs == GetOperationHookCallbacksForContext(generators, f)
     IN IF cbs.isNull
          THEN /\ field' = [field EXCEPT ![f].processed = TRUE]
               /\ buildError' = NoError
               /\ UNCHANGED <<buildState, callbacks>>
          ELSE IF field[f].resolve = "none"
          THEN /\ field' = [field EXCEPT ![f].processed = TRUE]
               /\ buildState' = "failed"
               /\ buildError' = BuildError("defaultResolver", <<FieldName(f)>>)
               /\ UNCHANGED callbacks
          ELSE /\ field' = [field EXCEPT
                              ![f] = [processed |-> TRUE, resolve |-> "wrapped"]]
               /\ callbacks' = [callbacks EXCEPT ![f] = cbs]
               /\ buildError' = NoError
               /\ UNCHANGED buildState
  /\ UNCHANGED <<schema, generators, inv>>

\* the per-field hook without the `if (!oldResolve) throw`
FieldHookWrapsWithoutResolver(f) ==
  /\ buildState = "building"
  /\ f \in schema
  /\ ~field[f].processed
  /\ lastOp' = Op("fieldHook", f, FALSE)
  /\ buildError' = NoError
  /\ IF ~IsRoot(f)
       THEN /\ field' = [field EXCEPT ![f].processed = TRUE]
            /\ UNCHANGED <<locked, buildState, callbacks, genCalls>>
       ELSE /\ locked' = TRUE
            /\ genCalls' = [genCalls EXCEPT ![f] = generators]
            /\ LET cbs == GetOperationHookCallbacksForContext(generators, f)
               IN IF cbs.isNull
                    THEN /\ field' = [field EXCEPT ![f].processed = TRUE]
                         /\ UNCHANGED <<buildState, callbacks>>
                    ELSE /\ field' = [field EXCEPT
                                        ![f] = [processed |-> TRUE, resolve |-> "wrapped"]]
                         /\ callbacks' = [callbacks EXCEPT ![f] = cbs]
                         /\ UNCHANGED buildState
  /\ UNCHANGED <<schema, generators, inv>>

\* builder.hook("GraphQLObjectType:fields:field", (field, build, context) => ...)
FieldHook(f) ==
  /\ buildState = "building"
  /\ f \in schema
  /\ ~field[f].processed
  /\ lastOp' = Op("fieldHook", f,
                  /\ IsRoot(f)
                  /\ ~GetOperationHookCallbacksForContext(generators, f).isNull
                  /\ field[f].resolve = "none")
  /\ IF ~IsRoot(f)
       THEN \* We only care about root fields
            /\ field' = [field EXCEPT ![f].processed = TRUE]
            /\ buildError' = NoError
            /\ UNCHANGED <<locked, buildState, callbacks, genCalls>>
       ELSE /\ locked' = TRUE
            /\ genCalls' = [genCalls EXCEPT ![f] = generators]
            /\ LET cbs == GetOperationHookCallbacksForContext(generators, f)
               IN IF cbs.isNull
                    THEN /\ field' = [field EXCEPT ![f].processed = TRUE]
                         /\ buildError' = NoError
                         /\ UNCHANGED <<buildState, callbacks>>
                    ELSE IF field[f].resolve = "none"
                    THEN /\ field' = [field EXCEPT ![f].processed = TRUE]
                         /\ buildState' = "failed"
                         /\ buildError' = BuildError("defaultResolver", <<FieldName(f)>>)
                         /\ UNCHANGED callbacks
                    ELSE /\ field' = [field EXCEPT
                                        ![f] = [processed |-> TRUE, resolve |-> "wrapped"]]
                         /\ callbacks' = [callbacks EXCEPT ![f] = cbs]
                         /\ buildError' = NoError
                         /\ UNCHANGED buildState
  /\ UNCHANGED <<schema, generators, inv>>

\* the test suite's UndoHooksPlugin, a later hook on the same field:
\* delete field.resolve["__asyncHooks"]
UndoHooks(f) ==
  /\ buildState = "building"
  /\ f \in schema
  /\ field[f].processed
  /\ field[f].resolve = "wrapped"
  /\ field' = [field EXCEPT ![f].resolve = "unmarked"]
  /\ lastOp' = Op("undoHooks", f, FALSE)
  /\ buildError' = NoError
  /\ UNCHANGED <<schema, generators, locked, buildState, callbacks, genCalls, inv>>

\* [schema.getQueryType(), schema.getMutationType(),
\*  schema.getSubscriptionType()].filter(_ => _)
RootTypes ==
  SelectSeq(<<"Query", "Mutation", "Subscription">>,
            LAMBDA t : \E f \in schema : FieldContext[f].Self = t)

\* Object.values(type.getFields())
TypeFields(t) ==
  SelectSeq(FieldOrder, LAMBDA f : f \in schema /\ FieldContext[f].Self = t)

\* the check without its marker half: only `!resolve`
RECURSIVE MissingOfOnlyUnresolved(_)
MissingOfOnlyUnresolved(fs) ==
  IF fs = <<>> THEN <<>>
  ELSE (IF field[fs[1]].resolve = "none" THEN <<FieldName(fs[1])>> ELSE <<>>)
         \o MissingOfOnlyUnresolved(Tail(fs))

\* the missingHooks pushed for one type: `${type.name}.${field.name}` of the
\* fields with no resolver or a resolver without the __asyncHooks marker
RECURSIVE MissingOf(_)
MissingOf(fs) ==
  IF fs = <<>> THEN <<>>
  ELSE (IF field[fs[1]].resolve # "wrapped" THEN <<FieldName(fs[1])>> ELSE <<>>)
         \o MissingOf(Tail(fs))

\* finalize's missingHooks once types.forEach is over
RECURSIVE MissingIn(_)
MissingIn(types) ==
  IF types = <<>> THEN <<>>
  ELSE MissingOf(TypeFields(types[1])) \o MissingIn(Tail(types))

MissingHooks == MissingIn(RootTypes)

\* builder.hook("finalize", ...): runs once every field has been built
Finalize ==
  /\ buildState = "building"
  /\ \A f \in schema : field[f].processed
  /\ IF Len(MissingHooks) # 0
       THEN /\ buildState' = "failed"
            /\ lastOp' = Op("finalize", "schema", TRUE)
            /\ buildError' = BuildError("schemaValidation", MissingHooks)
       ELSE /\ buildState' = "finalized"
            /\ lastOp' = Op("finalize", "schema", FALSE)
            /\ buildError' = NoError
  /\ UNCHANGED <<schema, generators, locked, field, callbacks, genCalls, inv>>

(***************************************************************************)
(* The wrapped resolver.  One invocation is a record: where it stands      *)
(* (pc), the hook list position and current output of the applyHooks call  *)
(* in progress, whether a hook is awaited, its resolveInfo.graphileMeta,   *)
(* and the history of the calls it made.                                   *)
(***************************************************************************)
Invocations == {1}

Idle == [pc |-> "idle", field |-> "none", idx |-> 0, output |-> Undefined,
         awaiting |-> FALSE, graphileMeta |-> "unset", log |-> <<>>,
         result |-> Undefined]

Returned(v) == [kind |-> "return", value |-> v]
Threw(v) == [kind |-> "throw", value |-> v]

\* what a hook may do with its input: return it, return a derivative, return
\* null, return undefined, or throw
HookOutcomes(input) ==
  {Returned(v) : v \in {input, HookValue, Null, Undefined}}
    \cup {Threw(e) : e \in Errors}

\* what the original resolver may do
ResolveOutcomes ==
  {Returned(v) : v \in {ResolverValue, Null, Undefined}}
    \cup {Threw(e) : e \in Errors}

Call(who, cb, input) ==
  [stage |-> who, callback |-> cb, input |-> input, kind |-> "pending",
   value |-> Undefined]

Settle(log, outcome) ==
  [log EXCEPT ![Len(log)].kind = outcome.kind, ![Len(log)].value = outcome.value]

\* the hook list the applyHooks call of stage pc iterates over
Hooks(r) == callbacks[r.field][r.pc]

\* applyHooks(hooks, input, ...) begins: let output = input
StartApplyHooks(r, stage, input) ==
  [r EXCEPT !.pc = stage, !.idx = 1, !.output = input, !.awaiting = FALSE]

\* the catch block returning the error hooks' result instead of throwing it
StageReturnedSwallows(r, i, v) ==
  CASE r.pc = "before" ->
         IF v # Sentinel(i)
           THEN [r EXCEPT !.pc = "returned", !.result = v, !.awaiting = FALSE]
           ELSE [r EXCEPT !.pc = "resolve", !.awaiting = TRUE,
                          !.log = Append(r.log, Call("resolve", "oldResolve", Source(i)))]
    [] r.pc = "after" ->
         [r EXCEPT !.pc = "returned", !.result = v, !.awaiting = FALSE]
    [] r.pc = "error" ->
         [r EXCEPT !.pc = "returned", !.result = v, !.awaiting = FALSE]

\* the try block exiting early only on null instead of on any changed result
StageReturnedOnlyNullExits(r, i, v) ==
  CASE r.pc = "before" ->
         IF v = Null
           THEN [r EXCEPT !.pc = "returned", !.result = v, !.awaiting = FALSE]
           ELSE [r EXCEPT !.pc = "resolve", !.awaiting = TRUE,
                          !.log = Append(r.log, Call("resolve", "oldResolve", Source(i)))]
    [] r.pc = "after" ->
         [r EXCEPT !.pc = "returned", !.result = v, !.awaiting = FALSE]
    [] r.pc = "error" ->
         [r EXCEPT !.pc = "raised", !.result = v, !.awaiting = FALSE]

\* a wrapped resolver that calls itself again once the after hooks are done
\* instead of returning their result
StageReturnedStartsOver(r, i, v) ==
  CASE r.pc = "before" ->
         IF v # Sentinel(i)
           THEN [r EXCEPT !.pc = "returned", !.result = v, !.awaiting = FALSE]
           ELSE [r EXCEPT !.pc = "resolve", !.awaiting = TRUE,
                          !.log = Append(r.log, Call("resolve", "oldResolve", Source(i)))]
    [] r.pc = "after" ->
         StartApplyHooks([Idle EXCEPT !.field = r.field, !.graphileMeta = {}],
                         "before", Sentinel(i))
    [] r.pc = "error" ->
         [r EXCEPT !.pc = "raised", !.result = v, !.awaiting = FALSE]

\* the resolver's try block continues with the value applyHooks returned
StageReturned(r, i, v) ==
  CASE r.pc = "before" ->
         IF v # Sentinel(i)
           THEN [r EXCEPT !.pc = "returned", !.result = v, !.awaiting = FALSE]
           ELSE [r EXCEPT !.pc = "resolve", !.awaiting = TRUE,
                          !.log = Append(r.log, Call("resolve", "oldResolve", Source(i)))]
    [] r.pc = "after" ->
         [r EXCEPT !.pc = "returned", !.result = v, !.awaiting = FALSE]
    [] r.pc = "error" ->
         [r EXCEPT !.pc = "raised", !.result = v, !.awaiting = FALSE]

\* a catch block that also catches what the error hooks throw and runs them
\* again on it
StageThrewReroutes(r, e) ==
  StartApplyHooks(r, "error", e)

\* a catch block that rethrows without running the error hooks
StageThrewSkipsErrorHooks(r, e) ==
  [r EXCEPT !.pc = "raised", !.result = e, !.awaiting = FALSE]

\* a catch block that hands the error hooks a fresh error, not the caught one
StageThrewLosesError(r, e) ==
  IF r.pc = "error"
    THEN [r EXCEPT !.pc = "raised", !.result = e, !.awaiting = FALSE]
    ELSE StartApplyHooks(r, "error", LogicError)

\* an error leaves the try block (catch) or the catch block itself
StageThrew(r, e) ==
  IF r.pc = "error"
    THEN [r EXCEPT !.pc = "raised", !.result = e, !.awaiting = FALSE]
    ELSE StartApplyHooks(r, "error", e)

\* resolve(op, args, context, resolveInfo) is called
Invoke(i, f) ==
  /\ buildState = "finalized"
  /\ f \in schema
  /\ field[f].resolve = "wrapped"
  /\ inv[i].pc \in {"idle", "returned", "raised"}
  /\ inv' = [inv EXCEPT ![i] =
               StartApplyHooks([Idle EXCEPT !.field = f, !.graphileMeta = {}],
                               "before", Sentinel(i))]
  /\ UNCHANGED buildVars

\* applyHooks calling the next hook with the initial input while the previous
\* one is still pending (hooks.map(hook => hook(input, ...)))
CallHookWithoutAwait(i) ==
  LET r == inv[i]
      started == Len(SelectSeq(r.log, LAMBDA e : e.stage = r.pc)) IN
  /\ r.pc \in Stages
  /\ started < Len(Hooks(r))
  /\ r.idx <= Len(Hooks(r))
  /\ inv' = [inv EXCEPT ![i] =
               [r EXCEPT !.awaiting = TRUE,
                         !.log = Append(r.log,
                                        Call(r.pc, Hooks(r)[started + 1], r.output)),
                         !.graphileMeta =
                            IF Hooks(r)[started + 1] = "addMessagesToMeta"
                              THEN r.graphileMeta \cup {"messages"}
                              ELSE r.graphileMeta]]
  /\ UNCHANGED buildVars

\* hooks writing to a record kept on the wrapped resolver (one per field)
\* instead of on the resolveInfo they are handed
CallHookWritesSharedMeta(i) ==
  LET r == inv[i] IN
  /\ r.pc \in Stages
  /\ ~r.awaiting
  /\ r.idx <= Len(Hooks(r))
  /\ inv' = [j \in DOMAIN inv |->
               IF j = i
                 THEN [r EXCEPT !.awaiting = TRUE,
                                !.log = Append(r.log, Call(r.pc, Hooks(r)[r.idx], r.output)),
                                !.graphileMeta =
                                   IF Hooks(r)[r.idx] = "addMessagesToMeta"
                                     THEN r.graphileMeta \cup {"messages"}
                                     ELSE r.graphileMeta]
                 ELSE IF /\ inv[j].field = r.field
                         /\ inv[j].pc # "idle"
                         /\ Hooks(r)[r.idx] = "addMessagesToMeta"
                        THEN [inv[j] EXCEPT !.graphileMeta = @ \cup {"messages"}]
                        ELSE inv[j]]
  /\ UNCHANGED buildVars

\* applyHooks: hook(output, args, context, resolveInfo) is called
CallHook(i) ==
  LET r == inv[i] IN
  /\ r.pc \in Stages
  /\ ~r.awaiting
  /\ r.idx <= Len(Hooks(r))
  /\ inv' = [inv EXCEPT ![i] =
               [r EXCEPT !.awaiting = TRUE,
                         !.log = Append(r.log, Call(r.pc, Hooks(r)[r.idx], r.output)),
                         !.graphileMeta =
                            IF Hooks(r)[r.idx] = "addMessagesToMeta"
                              THEN r.graphileMeta \cup {"messages"}
                              ELSE r.graphileMeta]]
  /\ UNCHANGED buildVars

\* the loop body without the undefined check
HookSettledUndefinedPasses(s, i, o) ==
  IF o.kind = "throw" THEN StageThrew(s, o.value)
  ELSE IF o.value = Null THEN StageReturned(s, i, Null)
  ELSE [s EXCEPT !.output = o.value, !.idx = s.idx + 1]

\* the loop body without the early return on null
HookSettledNullContinues(s, i, o) ==
  IF o.kind = "throw" THEN StageThrew(s, o.value)
  ELSE IF o.value = Undefined THEN StageThrew(s, LogicError)
  ELSE [s EXCEPT !.output = o.value, !.idx = s.idx + 1]

\* a loop that returns as soon as a hook changes the value
HookSettledExitsOnChange(s, i, o) ==
  IF o.kind = "throw" THEN StageThrew(s, o.value)
  ELSE IF o.value = Undefined THEN StageThrew(s, LogicError)
  ELSE IF o.value = Null THEN StageReturned(s, i, Null)
  ELSE IF o.value # s.output THEN StageReturned(s, i, o.value)
  ELSE [s EXCEPT !.output = o.value, !.idx = s.idx + 1]

\* a loop that does not advance to the next hook when a hook returns its
\* input unchanged
HookSettledRepeats(s, i, o) ==
  IF o.kind = "throw" THEN StageThrew(s, o.value)
  ELSE IF o.value = Undefined THEN StageThrew(s, LogicError)
  ELSE IF o.value = Null THEN StageReturned(s, i, Null)
  ELSE IF o.value = s.output /\ Len(s.log) < 6 THEN s
  ELSE [s EXCEPT !.output = o.value, !.idx = s.idx + 1]

\* applyHooks: the rest of the loop body once the awaited hook has settled
\* with outcome o (undefined throws, null returns early)
HookSettled(s, i, o) ==
  IF o.kind = "throw" THEN StageThrew(s, o.value)
  ELSE IF o.value = Undefined THEN StageThrew(s, LogicError)
  ELSE IF o.value = Null THEN StageReturned(s, i, Null)
  ELSE [s EXCEPT !.output = o.value, !.idx = s.idx + 1]

\* applyHooks: output = await hook(...) settles
SettleHook(i) ==
  LET r == inv[i] IN
  /\ r.pc \in Stages
  /\ r.awaiting
  /\ \E o \in HookOutcomes(r.output) :
       inv' = [inv EXCEPT ![i] =
                 HookSettled([r EXCEPT !.awaiting = FALSE, !.log = Settle(r.log, o)],
                             i, o)]
  /\ UNCHANGED buildVars

\* applyHooks: the loop is over, return output
FinishStage(i) ==
  LET r == inv[i] IN
  /\ r.pc \in Stages
  /\ ~r.awaiting
  /\ r.idx > Len(Hooks(r))
  /\ inv' = [inv EXCEPT ![i] = StageReturned(r, i, r.output)]
  /\ UNCHANGED buildVars

\* the try block returning the resolver's result without the after hooks
ResolveSettledSkipsAfter(s, o) ==
  IF o.kind = "throw" THEN StageThrew(s, o.value)
  ELSE [s EXCEPT !.pc = "returned", !.result = o.value, !.awaiting = FALSE]

\* a try block that applies the undefined and null checks of applyHooks to
\* the resolver's result as well
ResolveSettledChecksResult(s, o) ==
  IF o.kind = "throw" THEN StageThrew(s, o.value)
  ELSE IF o.value = Undefined THEN StageThrew(s, LogicError)
  ELSE IF o.value = Null
    THEN [s EXCEPT !.pc = "returned", !.result = Null, !.awaiting = FALSE]
  ELSE StartApplyHooks(s, "after", o.value)

\* the try block continues once the awaited oldResolve has settled
ResolveSettled(s, o) ==
  IF o.kind = "throw" THEN StageThrew(s, o.value)
  ELSE StartApplyHooks(s, "after", o.value)

\* const result = await oldResolve(op, args, context, resolveInfo) settles
SettleResolve(i) ==
  LET r == inv[i] IN
  /\ r.pc = "resolve"
  /\ \E o \in ResolveOutcomes :
       inv' = [inv EXCEPT ![i] = ResolveSettled([r EXCEPT !.log = Settle(r.log, o)], o)]
  /\ UNCHANGED buildVars

(***************************************************************************)
(* Specification                                                           *)
(***************************************************************************)
Init ==
  /\ schema \in Schemas
  /\ generators = <<>>
  /\ locked = FALSE
  /\ lastOp = Op("none", "none", FALSE)
  /\ buildState = "building"
  /\ field = [f \in Fields |->
                [processed |-> FALSE,
                 resolve |-> IF FieldContext[f].hasResolve THEN "old" ELSE "none"]]
  /\ callbacks = [f \in Fields |-> NullCallbacks]
  /\ genCalls = [f \in Fields |-> <<>>]
  /\ buildError = NoError
  /\ inv = [i \in Invocations |-> Idle]

Next ==
  \/ \E fn \in GenNames : AddOperationHook(fn)
  \/ \E f \in Fields : FieldHook(f)
  \/ \E f \in Fields : UndoHooks(f)
  \/ Finalize
  \/ \E i \in Invocations, f \in Fields : Invoke(i, f)
  \/ \E i \in Invocations : CallHook(i)
  \/ \E i \in Invocations : SettleHook(i)
  \/ \E i \in Invocations : FinishStage(i)
  \/ \E i \in Invocations : SettleResolve(i)

Spec == Init /\ [][Next]_vars

(***************************************************************************)
(* Concurrent invocations: the schema built with the messages plugin, its  *)
(* wrapped resolvers called by two requests whose awaits interleave.       *)
(***************************************************************************)
ConcInvocations == {1, 2}

ConcSchema == Fields \ {"QueryId"}

\* the registry of a server that uses the messages plugin
ConcGenerators == <<"messages">>

\* the field definition the per-field hook returns for f
BuiltField(gens, f) ==
  [processed |-> TRUE,
   resolve |-> IF IsRoot(f) /\ ~GetOperationHookCallbacksForContext(gens, f).isNull
                 THEN IF FieldContext[f].hasResolve THEN "wrapped" ELSE "none"
                 ELSE IF FieldContext[f].hasResolve THEN "old" ELSE "none"]

\* the state after the build of ConcSchema has run to the end
InitConc ==
  /\ schema = ConcSchema
  /\ generators = ConcGenerators
  /\ locked = TRUE
  /\ lastOp = Op("finalize", "schema", FALSE)
  /\ buildState = "finalized"
  /\ field = [f \in Fields |->
                IF f \in ConcSchema
                  THEN BuiltField(ConcGenerators, f)
                  ELSE [processed |-> FALSE,
                        resolve |-> IF FieldContext[f].hasResolve THEN "old" ELSE "none"]]
  /\ callbacks = [f \in Fields |->
                    IF f \in ConcSchema /\ IsRoot(f)
                      THEN GetOperationHookCallbacksForContext(ConcGenerators, f)
                      ELSE NullCallbacks]
  /\ genCalls = [f \in Fields |->
                   IF f \in ConcSchema /\ IsRoot(f) THEN ConcGenerators ELSE <<>>]
  /\ buildError = NoError
  /\ inv = [i \in ConcInvocations |-> Idle]

NextConc ==
  \/ \E i \in ConcInvocations, f \in Fields : Invoke(i, f)
  \/ \E i \in ConcInvocations : CallHook(i)
  \/ \E i \in ConcInvocations : SettleHook(i)
  \/ \E i \in ConcInvocations : FinishStage(i)
  \/ \E i \in ConcInvocations : SettleResolve(i)

SpecConc == InitConc /\ [][NextConc]_vars

\* the same, when every awaited hook and resolver settles and the event loop
\* runs every continuation that is ready
Fairness ==
  \A i \in ConcInvocations :
    /\ WF_vars(CallHook(i))
    /\ WF_vars(SettleHook(i))
    /\ WF_vars(FinishStage(i))
    /\ WF_vars(SettleResolve(i))

SpecLive == InitConc /\ [][NextConc]_vars /\ Fairness

(***************************************************************************)
(* Reading an invocation's history                                         *)
(***************************************************************************)
\* the calls invocation i made in one stage ("resolve": the original resolver)
StageLog(i, stage) == SelectSeq(inv[i].log, LAMBDA e : e.stage = stage)

\* a settled call that raised: it threw, or it is a hook call that returned
\* undefined
HookFailed(e) ==
  \/ e.kind = "throw"
  \/ e.stage \in Stages /\ e.kind = "return" /\ e.value = Undefined

\* invocation i is past its before stage
BeforeDone(i) == inv[i].pc \notin {"idle", "before"}

\* the before stage of invocation i ended by throwing
BeforeThrew(i) ==
  \E k \in 1..Len(StageLog(i, "before")) : HookFailed(StageLog(i, "before")[k])

\* the value the completed before stage of invocation i produced
BeforeResult(i) ==
  LET b == StageLog(i, "before")
  IN IF b = <<>> THEN Sentinel(i) ELSE b[Len(b)].value

\* the callbacks called in a stage, in call order
CalledIn(i, stage) ==
  LET l == StageLog(i, stage) IN [k \in 1..Len(l) |-> l[k].callback]

\* each call of the stage got the previous call's result, the first got v
Chained(l, v) ==
  \A k \in 1..Len(l) : l[k].input = IF k = 1 THEN v ELSE l[k - 1].value

\* the list of callbacks is the field's sorted descriptor list of that stage,
\* which is in ascending priority order
Ascending(f, stage, list) ==
  LET sorted == SortedHooks(generators, f, stage) IN
  /\ list = CallbacksOf(sorted)
  /\ \A m, n \in 1..Len(sorted) : m < n => sorted[m].priority <= sorted[n].priority

IsPrefix(s, t) == Len(s) <= Len(t) /\ s = SubSeq(t, 1, Len(s))

\* the original resolver of invocation i threw
ResolverThrew(i) ==
  /\ StageLog(i, "resolve") # <<>>
  /\ StageLog(i, "resolve")[1].kind = "throw"

\* the error that made invocation i enter its catch block
CaughtError(i) ==
  LET l == SelectSeq(inv[i].log, LAMBDA e : e.stage # "error" /\ HookFailed(e))
  IN IF l[1].kind = "throw" THEN l[1].value ELSE LogicError

\* invocation i entered its catch block
Caught(i) ==
  \E k \in 1..Len(inv[i].log) :
    inv[i].log[k].stage # "error" /\ HookFailed(inv[i].log[k])

(***************************************************************************)
(* C1  Registration lock: the first resolution of a root field's hooks     *)
(* locks the registry whatever it returns, the lock is never released, an *)
(* addOperationHook call fails exactly when the registry is locked, and a  *)
(* failed call leaves the generators as they were.                         *)
(***************************************************************************)
C1_RegistrationLock ==
  [][ /\ locked => locked'
      /\ (\E f \in Fields : IsRoot(f) /\ FieldHook(f)) => locked'
      /\ \A fn \in GenNames :
           AddOperationHook(fn) =>
             /\ lastOp'.threw <=> locked
             /\ locked => generators' = generators
             /\ ~locked => generators' = Append(generators, fn) ]_vars

\* a registration was refused after a root field whose hooks resolved to null
C1_Witness ==
  /\ locked
  /\ lastOp = Op("addOperationHook", "messages", TRUE)
  /\ generators = <<"preflight">>
  /\ field["QueryEcho"].processed
  /\ field["QueryEcho"].resolve = "old"

C4_NormalPath ==
  \A i \in Invocations :
    (BeforeDone(i) /\ ~BeforeThrew(i) /\ BeforeResult(i) = Sentinel(i)) =>
      LET r == inv[i]
          nb == Len(callbacks[r.field].before)
          a == StageLog(i, "after")
          res == StageLog(i, "resolve")
      IN /\ CalledIn(i, "before") = callbacks[r.field].before
         /\ Len(res) = 1
         /\ Len(r.log) > nb
         /\ r.log[nb + 1].stage = "resolve"
         /\ r.log[nb + 1].input = Source(i)
         /\ a # <<>> => /\ res[1].kind = "return"
                        /\ r.log[nb + 2].stage = "after"
                        /\ Chained(a, res[1].value)
         /\ r.pc = "returned" =>
              /\ res[1].kind = "return"
              /\ r.result = IF a = <<>> THEN res[1].value ELSE a[Len(a)].value
              /\ \/ CalledIn(i, "after") = callbacks[r.field].after
                 \/ a # <<>> /\ r.result = Null

\* identity before-hooks, the resolver returned, an after-hook changed the result
C4_Witness ==
  \E i \in Invocations :
    /\ inv[i].pc = "returned"
    /\ Len(StageLog(i, "before")) > 1
    /\ BeforeResult(i) = Sentinel(i)
    /\ StageLog(i, "resolve")[1].value = ResolverValue
    /\ Len(StageLog(i, "after")) > 1
    /\ inv[i].result = HookValue

(***************************************************************************)
(* C5  Error stage on failure, as amended: if the original resolver        *)
(* throws, the field's error-hooks are invoked in ascending priority       *)
(* order, each receiving the error as returned by the previous error-hook  *)
(* (the first receiving the raised error), until one of them returns null, *)
(* returns undefined or throws: the error-hooks after that one are not     *)
(* invoked.  When every invoked error-hook returns a defined non-null      *)
(* value, every registered error-hook is invoked and the last one's value  *)
(* (the raised error itself when there is no error-hook) is re-raised.     *)
(***************************************************************************)
C5_ErrorStageUntilStopped ==
  \A i \in Invocations :
    ResolverThrew(i) =>
      LET r == inv[i]
          e == StageLog(i, "error")
          all == callbacks[r.field].error
          stops(x) == HookFailed(x) \/ (x.kind = "return" /\ x.value = Null)
      IN /\ r.pc \in {"error", "raised"}
         /\ IsPrefix(CalledIn(i, "error"), all)
         /\ Ascending(r.field, "error", all)
         /\ Chained(e, StageLog(i, "resolve")[1].value)
         /\ \A k \in 1..Len(e) : stops(e[k]) => k = Len(e) /\ r.pc = "raised"
         /\ r.pc = "raised" =>
              \/ e # <<>> /\ stops(e[Len(e)])
              \/ /\ CalledIn(i, "error") = all
                 /\ r.result = IF e = <<>> THEN StageLog(i, "resolve")[1].value
                               ELSE e[Len(e)].value

\* the resolver threw, two error-hooks ran in priority order, the value of the
\* second was raised
C5_Witness ==
  \E i \in Invocations :
    /\ ResolverThrew(i)
    /\ inv[i].pc = "raised"
    /\ CalledIn(i, "error") = <<"e500", "e900">>
    /\ StageLog(i, "error")[1].value = HookValue
    /\ inv[i].result = HookValue

\* the claim as first stated: whenever the resolver throws, every registered
\* error-hook has been invoked by the time the invocation raises
C5_EveryErrorHookRuns ==
  \A i \in Invocations :
    (ResolverThrew(i) /\ inv[i].pc = "raised") =>
      CalledIn(i, "error") = callbacks[inv[i].field].error

(***************************************************************************)
(* C6  A failure is never swallowed: an invocation in which a before-hook, *)
(* the original resolver, an after-hook or an error-hook threw, or a hook  *)
(* returned undefined, never ends by returning a value; once finished it   *)
(* has raised.                                                             *)
(***************************************************************************)
C6_NeverSwallowed ==
  \A i \in Invocations :
    (\E k \in 1..Len(inv[i].log) : HookFailed(inv[i].log[k])) =>
      inv[i].pc \in {"error", "raised"}

\* a before-hook threw, an error-hook answered with null, the invocation raised
C6_Witness ==
  \E i \in Invocations :
    /\ inv[i].pc = "raised"
    /\ inv[i].log[1].stage = "before"
    /\ inv[i].log[1].kind = "throw"
    /\ StageLog(i, "error") # <<>>
    /\ inv[i].result = Null

(***************************************************************************)
(* C7  Value re-raised: when the error stage completes (no error-hook      *)
(* throws or returns undefined), the value raised is the error stage's     *)
(* terminal value for the caught error: the caught error itself when the   *)
(* error list is empty or every error-hook returned its input, null when   *)
(* an error-hook returned null, the last error-hook's value otherwise; the *)
(* first error-hook receives the caught error and each next one the        *)
(* previous one's value.                                                   *)
(***************************************************************************)
C7_ValueReRaised ==
  \A i \in Invocations :
    LET r == inv[i]
        e == StageLog(i, "error")
    IN (r.pc = "raised" /\ \A k \in 1..Len(e) : ~HookFailed(e[k])) =>
         /\ Caught(i)
         /\ Chained(e, CaughtError(i))
         /\ callbacks[r.field].error = <<>> => r.result = CaughtError(i)
         /\ (\A k \in 1..Len(e) : e[k].value = e[k].input) => r.result = CaughtError(i)
         /\ (\E k \in 1..Len(e) : e[k].value = Null) => r.result = Null
         /\ e # <<>> => r.result = e[Len(e)].value

\* an after-hook threw, the second error-hook transformed the error
C7_Witness ==
  \E i \in Invocations :
    /\ inv[i].pc = "raised"
    /\ StageLog(i, "after") # <<>>
    /\ CaughtError(i) \in Errors
    /\ Len(StageLog(i, "error")) = 2
    /\ StageLog(i, "error")[1].value = CaughtError(i)
    /\ inv[i].result = HookValue

(***************************************************************************)
(* C8  Undefined is fatal: once a before- or after-hook has resolved to    *)
(* undefined, the invocation is in its error stage or has raised, every    *)
(* later call is an error-hook call (no later hook of that stage, no       *)
(* resolver call, no after-hook), the error stage starts from the          *)
(* LogicError, and with an empty or identity error stage the LogicError is *)
(* what is raised.                                                         *)
(***************************************************************************)
C8_UndefinedIsFatal ==
  \A i \in Invocations :
    \A k \in 1..Len(inv[i].log) :
      LET r == inv[i]
          x == r.log[k]
          e == StageLog(i, "error")
      IN (x.stage \in {"before", "after"} /\ x.kind = "return" /\ x.value = Undefined) =>
           /\ r.pc \in {"error", "raised"}
           /\ \A j \in (k + 1)..Len(r.log) : r.log[j].stage = "error"
           /\ (Len(r.log) > k) => r.log[k + 1].input = LogicError
           /\ (Len(r.log) = k /\ r.pc = "error") => r.output = LogicError
           /\ (r.pc = "raised" /\ \A j \in 1..Len(e) : e[j].value = e[j].input) =>
                r.result = LogicError

\* the first of several before-hooks returned undefined and the LogicError was
\* raised through an identity error-hook
C8_Witness ==
  \E i \in Invocations :
    /\ inv[i].pc = "raised"
    /\ inv[i].log[1].stage = "before"
    /\ inv[i].log[1].value = Undefined
    /\ Len(callbacks[inv[i].field].before) > 1
    /\ Len(inv[i].log) = 2
    /\ inv[i].log[2].value = LogicError
    /\ inv[i].result = LogicError

(***************************************************************************)
(* What the registry contributes to a stage of a field, slot by slot: slot *)
(* <<g, k>> is the k-th descriptor listed for the stage by the g-th        *)
(* registered generator.                                                   *)
(***************************************************************************)
Slots(f, stage) ==
  UNION {LET r == CallGen(generators[g], f)
         IN IF r.applies /\ stage \in DOMAIN r.bundle
              THEN {<<g, k>> : k \in 1..Len(r.bundle[stage])}
              ELSE {} :
           g \in 1..Len(generators)}

SlotDescriptor(f, stage, s) == CallGen(generators[s[1]], f).bundle[stage][s[2]]

\* registration order: by generator, then by position in the bundle's list
SlotBefore(s, t) == s[1] < t[1] \/ (s[1] = t[1] /\ s[2] < t[2])

\* the descriptors contributed with priority p, in registration order
RegisteredAt(f, stage, p) ==
  LET at == {s \in Slots(f, stage) : SlotDescriptor(f, stage, s).priority = p}
      nth(n) == CHOOSE s \in at : Cardinality({t \in at : SlotBefore(t, s)}) = n - 1
  IN [n \in 1..Cardinality(at) |-> SlotDescriptor(f, stage, nth(n))]

(***************************************************************************)
(* C9  Priority ordering: whenever a root field is processed, for each     *)
(* stage the sorted list holds each contributed descriptor exactly as many *)
(* times as the applicable generators list it (nothing lost, nothing       *)
(* duplicated) and is in ascending priority order, whatever the            *)
(* registration order and the order inside a bundle; aggregation returns   *)
(* the callbacks of that list in that order (null only when no generator   *)
(* contributes anything); the wrapped resolver built holds exactly the     *)
(* lists returned, and keeps them.                                         *)
(***************************************************************************)
C9_PriorityOrdering ==
  [][ /\ \A f \in Fields :
           (IsRoot(f) /\ FieldHook(f)) =>
             LET agg == GetOperationHookCallbacksForContext(generators, f) IN
             /\ \A stage \in Stages :
                  LET list == SortedHooks(generators, f, stage)
                      slots == Slots(f, stage)
                  IN /\ Len(list) = Cardinality(slots)
                     /\ \A s \in slots :
                          LET d == SlotDescriptor(f, stage, s) IN
                          Cardinality({m \in 1..Len(list) : list[m] = d})
                            = Cardinality({t \in slots : SlotDescriptor(f, stage, t) = d})
                     /\ \A m, n \in 1..Len(list) :
                          m < n => list[m].priority <= list[n].priority
                     /\ agg[stage] = IF agg.isNull THEN <<>> ELSE CallbacksOf(list)
                     /\ agg.isNull => slots = {}
             /\ field'[f].resolve = "wrapped" <=> (~agg.isNull /\ field[f].resolve = "old")
             /\ field'[f].resolve = "wrapped" => callbacks'[f] = agg
      /\ \A f \in Fields :
           field[f].resolve = "wrapped" => callbacks'[f] = callbacks[f] ]_vars

\* priorities listed 500, 100, 900 and a second generator's 100 and 900
C9_Witness ==
  /\ generators = <<"order", "messages">>
  /\ field["QueryEcho"].resolve = "wrapped"
  /\ callbacks["QueryEcho"].before
       = <<"b100", "addMessagesToMeta", "b500", "b900", "validateMessages">>
  /\ callbacks["QueryEcho"].error = <<"e500", "addMessagesToError", "e900">>

\* the calls made so far in each stage follow the list the resolver holds
CallOrder(v) ==
  \A i \in Invocations :
    v[i].pc # "idle" =>
      \A stage \in Stages :
        LET l == SelectSeq(v[i].log, LAMBDA e : e.stage = stage)
        IN IsPrefix([k \in 1..Len(l) |-> l[k].callback], callbacks[v[i].field][stage])

(***************************************************************************)
(* C10  Stable ties: whenever a root field is processed, in every sorted   *)
(* list the descriptors of one priority appear in registration order       *)
(* (generator by generator, and inside a bundle in the order listed), the  *)
(* wrapped resolver holds their callbacks in that order, and an invocation *)
(* calls the callbacks of a stage in the order of the list its resolver    *)
(* holds.                                                                  *)
(***************************************************************************)
C10_StableTies ==
  [][ /\ \A f \in Fields :
           (IsRoot(f) /\ FieldHook(f)) =>
             \A stage \in Stages :
               LET list == SortedHooks(generators, f, stage) IN
               /\ \A m \in 1..Len(list) :
                    SelectSeq(list, LAMBDA d : d.priority = list[m].priority)
                      = RegisteredAt(f, stage, list[m].priority)
               /\ field'[f].resolve = "wrapped" => callbacks'[f][stage] = CallbacksOf(list)
      /\ CallOrder(inv') ]_vars

\* three before-hooks of priority 900 from two generators, called in
\* registration order
C10_Witness ==
  \E i \in Invocations :
    /\ generators = <<"tie", "messages">>
    /\ inv[i].field = "QueryEcho"
    /\ CalledIn(i, "before")
         = <<"addMessagesToMeta", "tieA", "tieB", "validateMessages">>

(***************************************************************************)
(* C11  Finalize validation: finalize fails exactly when some field of an  *)
(* existing root type has no resolver or a resolver without the wrapped    *)
(* marker; the one error it raises names each such field once, as          *)
(* TypeName.fieldName, and names no wrapped field; when every root field   *)
(* is marked it returns the schema as it is.                               *)
(***************************************************************************)
C11_FinalizeValidation ==
  [][ Finalize =>
        LET offending ==
              {f \in schema :
                 /\ FieldContext[f].Self \in {"Query", "Mutation", "Subscription"}
                 /\ field[f].resolve \in {"none", "old", "unmarked"}}
            named == buildError'.fields
        IN /\ buildState' = "failed" <=> offending # {}
           /\ lastOp'.threw <=> offending # {}
           /\ offending # {} =>
                /\ buildError'.kind = "schemaValidation"
                /\ {named[k] : k \in 1..Len(named)} = {FieldName(f) : f \in offending}
                /\ Len(named) = Cardinality(offending)
           /\ offending = {} =>
                /\ buildState' = "finalized"
                /\ buildError' = NoError
                /\ schema' = schema /\ field' = field /\ callbacks' = callbacks ]_vars

\* the marker of Query.echo was deleted: finalize names it and not the wrapped
\* Mutation.echo
C11_Witness ==
  /\ buildState = "failed"
  /\ lastOp = Op("finalize", "schema", TRUE)
  /\ field["QueryEcho"].resolve = "unmarked"
  /\ field["MutationEcho"].resolve = "wrapped"
  /\ buildError = BuildError("schemaValidation", <<"Query.echo">>)

\* some registered generator returns a bundle (even an empty one) for field f
HasApplicableGenerator(f) ==
  \E g \in 1..Len(generators) : CallGen(generators[g], f).applies

\* some registered generator contributes a callback to some stage of field f
HasContribution(f) == \E stage \in Stages : Slots(f, stage) # {}

(***************************************************************************)
(* C12  Wrapped when contributed: the per-field hook wraps a root          *)
(* field's resolver exactly when the field has a resolver and at least one *)
(* generator contributes at least one before-, after- or error-callback    *)
(* for it; if that is so for every root field and no plugin deletes a      *)
(* marker afterwards, every root field ends the build wrapped and finalize *)
(* succeeds.  A bundle whose lists are all empty does not count:           *)
(* aggregation returns null and the field is left untouched.               *)
(***************************************************************************)
C12_WrappedWhenContributed ==
  [][ /\ \A f \in Fields :
           (IsRoot(f) /\ FieldHook(f)) =>
             (field'[f].resolve = "wrapped"
                <=> (HasContribution(f) /\ field[f].resolve = "old"))
      /\ ( /\ Finalize
           /\ \A f \in schema :
                IsRoot(f) => /\ FieldContext[f].hasResolve
                             /\ HasContribution(f)
                             /\ field[f].resolve # "unmarked" )
         => /\ buildState' = "finalized"
            /\ \A f \in schema : IsRoot(f) => field'[f].resolve = "wrapped" ]_vars

\* an empty bundle and the messages generator: every root field is wrapped
C12_Witness ==
  /\ buildState = "finalized"
  /\ generators = <<"empty", "messages">>
  /\ \A f \in schema : IsRoot(f) => field[f].resolve = "wrapped"

\* the claim as first stated: once finalize has run with an applicable
\* generator for every root field (and no marker deleted), every root field is
\* wrapped and finalize has succeeded
C12_WrappedWhenApplicable ==
  ( /\ lastOp.op = "finalize"
    /\ \A f \in schema :
         IsRoot(f) => HasApplicableGenerator(f) /\ field[f].resolve # "unmarked" )
  => /\ buildState = "finalized"
     /\ \A f \in schema : IsRoot(f) => field[f].resolve = "wrapped"

(***************************************************************************)
(* C13  Missing resolver: when the per-field hook processes a root field   *)
(* that has no resolver, it throws the default-resolver error naming       *)
(* TypeName.fieldName, aborts the build and produces no wrapped resolver   *)
(* if the field has at least one aggregated callback, and returns the      *)
(* field as it is, without an error, if it has none.                       *)
(***************************************************************************)
C13_MissingResolver ==
  [][ \A f \in Fields :
        (IsRoot(f) /\ field[f].resolve = "none" /\ FieldHook(f)) =>
          /\ field'[f].resolve = "none"
          /\ callbacks' = callbacks
          /\ IF HasContribution(f)
               THEN /\ lastOp' = Op("fieldHook", f, TRUE)
                    /\ buildError' = BuildError("defaultResolver", <<FieldName(f)>>)
                    /\ buildState' = "failed"
               ELSE /\ lastOp' = Op("fieldHook", f, FALSE)
                    /\ buildError' = NoError
                    /\ buildState' = "building" ]_vars

\* Query.id has callbacks from the messages generator but no resolver
C13_Witness ==
  /\ generators = <<"messages">>
  /\ lastOp = Op("fieldHook", "QueryId", TRUE)
  /\ buildError = BuildError("defaultResolver", <<"Query.id">>)
  /\ buildState = "failed"
  /\ field["QueryId"].resolve = "none"

(***************************************************************************)
(* C14  CallMeta isolation: calling a wrapped resolver installs a fresh,   *)
(* empty graphileMeta on that invocation's resolveInfo before any hook or  *)
(* the original resolver has run; a step of one invocation never changes   *)
(* the graphileMeta of another; and what an invocation finds in its        *)
(* graphileMeta was written by a hook of that same invocation, never by an *)
(* earlier or a concurrent one.                                            *)
(***************************************************************************)
C14_CallMetaIsolation ==
  [][ \A i \in ConcInvocations :
        /\ (\E f \in Fields : Invoke(i, f)) =>
             /\ inv'[i].graphileMeta = {}
             /\ inv'[i].log = <<>>
        /\ inv'[i].pc # "idle" => inv'[i].graphileMeta \subseteq {"messages"}
        /\ \A j \in ConcInvocations \ {i} :
             inv'[i] # inv[i] => inv'[j].graphileMeta = inv[j].graphileMeta
        /\ (inv'[i].pc # "idle" /\ "messages" \in inv'[i].graphileMeta) =>
             \E k \in 1..Len(inv'[i].log) :
               inv'[i].log[k].callback = "addMessagesToMeta" ]_vars

\* invocation 1 has written its messages, invocation 2 of the same resolver
\* started afterwards and is in flight with an empty graphileMeta
C14_Witness ==
  /\ inv[1].field = "MutationEcho" /\ inv[2].field = "MutationEcho"
  /\ inv[1].pc = "after" /\ inv[1].awaiting
  /\ inv[1].graphileMeta = {"messages"}
  /\ inv[2].pc = "before" /\ inv[2].awaiting /\ Len(inv[2].log) = 1
  /\ inv[2].log[1].callback = "addMessagesToMeta"

(***************************************************************************)
(* C15  Registration frame: a successful addOperationHook appends exactly  *)
(* the given generator at the end of the generator sequence and changes    *)
(* nothing else of the engine; a failed one (locked) leaves the sequence   *)
(* and the lock as they were; hence the generators called for a root       *)
(* field are exactly the registered sequence, which never contains a       *)
(* generator offered after the lock.                                       *)
(***************************************************************************)
C15_RegistrationFrame ==
  [][ /\ \A fn \in GenNames :
           AddOperationHook(fn) =>
             /\ IF locked
                  THEN generators' = generators /\ locked'
                  ELSE generators' = Append(generators, fn) /\ ~locked'
             /\ UNCHANGED <<schema, buildState, field, callbacks, genCalls, inv>>
      /\ locked => generators' = generators
      /\ \A f \in Fields :
           genCalls'[f] # <<>> => genCalls'[f] = generators' ]_vars

\* one generator registered, Query.echo built with it, and a later
\* registration refused
C15_Witness ==
  /\ locked
  /\ generators = <<"messages">>
  /\ genCalls["QueryEcho"] = <<"messages">>
  /\ lastOp = Op("addOperationHook", "order", TRUE)
  /\ buildError = BuildError("registrationLocked", <<>>)

(***************************************************************************)
(* C16  Sequential chaining: in every invocation, whatever the other       *)
(* invocation does in between, at most one call is in flight and it is the *)
(* latest one (a callback is started only after the previous one settled), *)
(* and each callback of a stage receives the value the previous callback   *)
(* of that stage resolved to, the first one the stage's initial value: the *)
(* sentinel, the resolver's result, or the caught error.                   *)
(***************************************************************************)
StageInput(i, stage) ==
  CASE stage = "before" -> Sentinel(i)
    [] stage = "after"  -> StageLog(i, "resolve")[1].value
    [] stage = "error"  -> CaughtError(i)

C16_SequentialChaining ==
  \A i \in ConcInvocations :
    /\ \A k \in 1..Len(inv[i].log) :
         inv[i].log[k].kind = "pending" => k = Len(inv[i].log) /\ inv[i].awaiting
    /\ \A stage \in Stages :
         StageLog(i, stage) # <<>> =>
           Chained(StageLog(i, stage), StageInput(i, stage))

\* both invocations are suspended in their second before-hook; the first
\* hook of invocation 1 resolved to a derivative, which the second received,
\* while invocation 2 ran in between
C16_Witness ==
  /\ inv[1].field = "MutationEcho" /\ inv[2].field = "MutationEcho"
  /\ inv[1].pc = "before" /\ inv[1].awaiting /\ Len(inv[1].log) = 2
  /\ inv[1].log[1].value = HookValue
  /\ inv[1].log[2].input = HookValue
  /\ inv[2].pc = "before" /\ inv[2].awaiting /\ Len(inv[2].log) = 2
  /\ inv[2].log[2].input = Sentinel(2)

(***************************************************************************)
(* C17  Invocation counts: processing a root field calls every registered  *)
(* generator once, in registration order, and generators are called at no  *)
(* other time; a generator returning null for the field adds nothing to    *)
(* the field's callbacks; no callback is called before the schema is       *)
(* finalized; in one invocation the callbacks called in a stage are an     *)
(* initial part of that stage's list, so every list entry is called at     *)
(* most once, and all entries of the before list are called exactly once   *)
(* when every before-hook returns its input.                               *)
(***************************************************************************)
\* the generators that return a bundle for field f
Applicable(gens, f) == SelectSeq(gens, LAMBDA g : CallGen(g, f).applies)

\* every before-hook called so far by invocation i returned its input
IdentityBefore(i) ==
  \A k \in 1..Len(StageLog(i, "before")) :
    /\ StageLog(i, "before")[k].kind = "return"
    /\ StageLog(i, "before")[k].value = StageLog(i, "before")[k].input

C17_InvocationCounts ==
  /\ [][ \A f \in Fields :
           /\ (IsRoot(f) /\ FieldHook(f)) =>
                /\ genCalls'[f] = generators
                /\ field'[f].resolve = "wrapped" =>
                     callbacks'[f] =
                       GetOperationHookCallbacksForContext(Applicable(generators, f), f)
           /\ ~(IsRoot(f) /\ FieldHook(f)) => genCalls'[f] = genCalls[f] ]_vars
  /\ [](\A i \in Invocations :
          /\ buildState # "finalized" => inv[i].log = <<>>
          /\ inv[i].pc # "idle" =>
               /\ \A stage \in Stages :
                    IsPrefix(CalledIn(i, stage), callbacks[inv[i].field][stage])
               /\ Len(StageLog(i, "resolve")) <= 1
               /\ (BeforeDone(i) /\ IdentityBefore(i)) =>
                    CalledIn(i, "before") = callbacks[inv[i].field].before)

\* Query.echo was built with the messages and the preflight generators (the
\* latter returns null for it); one invocation ran both before-hooks, the
\* resolver and the after-hook
C17_Witness ==
  /\ generators = <<"messages", "preflight">>
  /\ genCalls["QueryEcho"] = <<"messages", "preflight">>
  /\ callbacks["QueryEcho"].before = <<"addMessagesToMeta", "validateMessages">>
  /\ inv[1].field = "QueryEcho"
  /\ inv[1].pc = "returned"
  /\ IdentityBefore(1)
  /\ [k \in 1..Len(inv[1].log) |-> inv[1].log[k].callback] =
       <<"addMessagesToMeta", "validateMessages", "oldResolve", "validateMessages">>

\* the stronger reading of C17: no callback function is called twice in one
\* invocation
C17_EachCallbackAtMostOnce ==
  \A i \in Invocations :
    \A k, m \in 1..Len(inv[i].log) :
      k # m => inv[i].log[k].callback # inv[i].log[m].callback

(***************************************************************************)
(* C18  Idempotent no-op: when the per-field hook processes a root field   *)
(* to which no generator contributes a callback (each returns null or      *)
(* empty lists), aggregation returns null and the hook returns the field   *)
(* it was given, without an error: the field's resolver is the original    *)
(* resolver itself (or still absent), so it returns and raises what the    *)
(* original does, and no callbacks are attached to it.                     *)
(***************************************************************************)
C18_NoOpWithoutCallbacks ==
  [][ \A f \in Fields :
        (IsRoot(f) /\ ~HasContribution(f) /\ FieldHook(f)) =>
          /\ GetOperationHookCallbacksForContext(generators, f).isNull
          /\ field'[f] = [field[f] EXCEPT !.processed = TRUE]
          /\ field'[f].resolve = IF FieldContext[f].hasResolve THEN "old" ELSE "none"
          /\ callbacks' = callbacks
          /\ callbacks'[f] = NullCallbacks
          /\ lastOp' = Op("fieldHook", f, FALSE)
          /\ buildState' = buildState ]_vars

\* Query.echo processed with a generator returning null for it and one
\* returning a bundle of empty lists
C18_Witness ==
  /\ generators = <<"preflight", "empty">>
  /\ lastOp = Op("fieldHook", "QueryEcho", FALSE)
  /\ field["QueryEcho"] = [processed |-> TRUE, resolve |-> "old"]
  /\ genCalls["QueryEcho"] = generators

(***************************************************************************)
(* C19  Replacing the sentinel does not end the before stage: a            *)
(* before-hook that returns a value other than null and undefined, its     *)
(* input or a replacement alike, is followed by the next before-hook of    *)
(* the list, which receives that value; the before stage ends before the   *)
(* end of its list only on null, undefined or a throw; and when it has     *)
(* run to the end with a replaced value, the original resolver is not      *)
(* called and that final value is what the wrapped resolver returns.       *)
(***************************************************************************)
C19_ReplacementContinues ==
  \A i \in Invocations :
    inv[i].pc # "idle" =>
      LET b == StageLog(i, "before")
          list == callbacks[inv[i].field].before
      IN /\ \A k \in 1..Len(b) :
              (/\ b[k].kind = "return"
               /\ b[k].value \notin {Null, Undefined}
               /\ k < Len(list)) =>
                IF k < Len(b)
                  THEN b[k + 1].callback = list[k + 1] /\ b[k + 1].input = b[k].value
                  ELSE /\ inv[i].pc = "before"
                       /\ ~inv[i].awaiting
                       /\ inv[i].idx = k + 1
                       /\ inv[i].output = b[k].value
         /\ (BeforeDone(i) /\ Len(b) < Len(list)) =>
              \/ HookFailed(b[Len(b)])
              \/ b[Len(b)].kind = "return" /\ b[Len(b)].value = Null
         /\ (BeforeDone(i) /\ ~BeforeThrew(i) /\ BeforeResult(i) # Sentinel(i)) =>
              /\ StageLog(i, "resolve") = <<>>
              /\ inv[i].pc = "returned"
              /\ inv[i].result = BeforeResult(i)

\* Mutation.echo with the messages and preflight generators: the first
\* before-hook replaced the sentinel, the two later ones were still called
\* with the replacement, and the resolver was skipped
C19_Witness ==
  /\ inv[1].field = "MutationEcho"
  /\ callbacks["MutationEcho"].before =
       <<"addMessagesToMeta", "validateMessages", "preflight">>
  /\ CalledIn(1, "before") = callbacks["MutationEcho"].before
  /\ StageLog(1, "before")[1].input = Sentinel(1)
  /\ StageLog(1, "before")[1].value = HookValue
  /\ StageLog(1, "before")[2].input = HookValue
  /\ StageLog(1, "before")[3].input = HookValue
  /\ StageLog(1, "before")[3].value = HookValue
  /\ StageLog(1, "resolve") = <<>>
  /\ inv[1].pc = "returned"
  /\ inv[1].result = HookValue

(***************************************************************************)
(* C20  The error stage runs at most once and its failures are not         *)
(* re-routed: the error-hooks called by an invocation are an initial part  *)
(* of the error list, nothing is called after them, and an error-hook that *)
(* throws or returns undefined is the last call of the invocation, which   *)
(* raises what that hook threw (the logic error for undefined) instead of  *)
(* the error that was caught.                                              *)
(***************************************************************************)
C20_ErrorStageOnce ==
  \A i \in Invocations :
    inv[i].pc # "idle" =>
      LET l == inv[i].log
          e == StageLog(i, "error")
      IN /\ IsPrefix(CalledIn(i, "error"), callbacks[inv[i].field].error)
         /\ \A k, m \in 1..Len(l) :
              (k < m /\ l[k].stage = "error") => l[m].stage = "error"
         /\ \A k \in 1..Len(e) :
              HookFailed(e[k]) =>
                /\ k = Len(e)
                /\ inv[i].pc = "raised"
                /\ inv[i].result =
                     IF e[k].kind = "throw" THEN e[k].value ELSE LogicError

\* the resolver threw, the first of two error-hooks returned undefined: the
\* second was not called and the logic error, not the caught one, is raised
C20_Witness ==
  /\ inv[1].pc = "raised"
  /\ ResolverThrew(1)
  /\ callbacks[inv[1].field].error = <<"e500", "e900">>
  /\ CalledIn(1, "error") = <<"e500">>
  /\ StageLog(1, "error")[1].input = CaughtError(1)
  /\ StageLog(1, "error")[1].kind = "return"
  /\ StageLog(1, "error")[1].value = Undefined
  /\ inv[1].result = LogicError
  /\ inv[1].result # CaughtError(1)

(***************************************************************************)
(* C21  The null and undefined checks apply to hook outputs only: whatever *)
(* the original resolver returns, null and undefined included, is handed   *)
(* to the after stage as its initial value; the first after-hook is called *)
(* with it, the later ones as long as each hook resolves to a value other  *)
(* than null and undefined; the invocation enters its catch block only if  *)
(* an after-hook failed; and with an empty after list the wrapped resolver *)
(* returns the resolver's result as it is.                                 *)
(***************************************************************************)
C21_InitialValueUnchecked ==
  \A i \in Invocations :
    (/\ StageLog(i, "resolve") # <<>>
     /\ StageLog(i, "resolve")[1].kind = "return") =>
      LET v == StageLog(i, "resolve")[1].value
          a == StageLog(i, "after")
          list == callbacks[inv[i].field].after
      IN /\ IF a # <<>>
              THEN a[1].callback = list[1] /\ a[1].input = v
              ELSE IF list # <<>>
                THEN /\ inv[i].pc = "after" /\ ~inv[i].awaiting
                     /\ inv[i].idx = 1 /\ inv[i].output = v
                ELSE \/ inv[i].pc = "after" /\ inv[i].output = v
                     \/ inv[i].pc = "returned" /\ inv[i].result = v
         /\ \A k \in 1..Len(a) :
              (/\ a[k].kind = "return"
               /\ a[k].value \notin {Null, Undefined}
               /\ k < Len(list)) =>
                IF k < Len(a)
                  THEN a[k + 1].callback = list[k + 1] /\ a[k + 1].input = a[k].value
                  ELSE inv[i].pc = "after" /\ inv[i].idx = k + 1
         /\ inv[i].pc \in {"error", "raised"} =>
              \E k \in 1..Len(a) : HookFailed(a[k])

\* the resolver returned null; the first after-hook was called with null and
\* resolved to a value, the second was called with that value
C21_Witness ==
  /\ StageLog(1, "resolve") # <<>>
  /\ StageLog(1, "resolve")[1].kind = "return"
  /\ StageLog(1, "resolve")[1].value = Null
  /\ Len(StageLog(1, "after")) = 2
  /\ StageLog(1, "after")[1].input = Null
  /\ StageLog(1, "after")[1].value = HookValue
  /\ StageLog(1, "after")[2].input = HookValue
  /\ inv[1].pc = "returned"

\* the stronger reading of C21: when the resolver has returned null and the
\* invocation has returned, every after-hook of the list has been called
C21_EveryAfterHookRuns ==
  \A i \in Invocations :
    (/\ inv[i].pc = "returned"
     /\ StageLog(i, "resolve") # <<>>
     /\ StageLog(i, "resolve")[1].value = Null) =>
      CalledIn(i, "after") = callbacks[inv[i].field].after

(***************************************************************************)
(* C22  Non-root fields are outside the protocol: the per-field hook       *)
(* returns a field that is not a root query, mutation or subscription      *)
(* field as it is, calls no generator for it, attaches no callbacks and    *)
(* does not lock the registry; the registry is locked exactly when a root  *)
(* field has been processed, so addOperationHook succeeds as long as only  *)
(* non-root fields have been.                                              *)
(***************************************************************************)
NoRootProcessed == \A f \in Fields : IsRoot(f) => ~field[f].processed

C22_NonRootUntouched ==
  [][ /\ \A f \in Fields :
           (~IsRoot(f) /\ FieldHook(f)) =>
             /\ field'[f] = [field[f] EXCEPT !.processed = TRUE]
             /\ lastOp' = Op("fieldHook", f, FALSE)
             /\ buildError' = NoError
             /\ UNCHANGED <<generators, locked, buildState, callbacks, genCalls>>
      /\ \A f \in Fields : ~IsRoot(f) => genCalls'[f] = <<>> /\ callbacks'[f].isNull
      /\ locked' <=> ~NoRootProcessed'
      /\ \A fn \in GenNames :
           (NoRootProcessed /\ AddOperationHook(fn)) =>
             /\ lastOp' = Op("addOperationHook", fn, FALSE)
             /\ generators' = Append(generators, fn) ]_vars

\* EchoPayload.text has been processed, no root field has, and a generator
\* was registered after that
C22_Witness ==
  /\ field["EchoPayloadText"].processed
  /\ NoRootProcessed
  /\ ~locked
  /\ generators = <<"preflight", "messages">>
  /\ lastOp = Op("addOperationHook", "messages", FALSE)

(***************************************************************************)
(* C23  Termination of an invocation: provided every awaited hook and the  *)
(* original resolver settle, every invocation that has started completes,  *)
(* by returning or by raising; until then it only moves forward through    *)
(* before, resolve, after and error, never back to an earlier stage or an  *)
(* earlier hook; it calls the original resolver at most once and the       *)
(* entries of each stage's list at most once, in list order.               *)
(***************************************************************************)
Rank(pc) ==
  CASE pc = "idle"    -> 0
    [] pc = "before"  -> 1
    [] pc = "resolve" -> 2
    [] pc = "after"   -> 3
    [] pc = "error"   -> 4
    [] pc \in {"returned", "raised"} -> 5

Running(i) == inv[i].pc \in {"before", "resolve", "after", "error"}

Completed(i) == inv[i].pc \in {"returned", "raised"}

C23_Termination ==
  /\ [][ \A i \in ConcInvocations :
           (Running(i) /\ inv'[i] # inv[i]) =>
             /\ Rank(inv'[i].pc) >= Rank(inv[i].pc)
             /\ inv'[i].pc = inv[i].pc => inv'[i].idx >= inv[i].idx
             /\ Len(inv'[i].log) >= Len(inv[i].log)
             /\ inv'[i].field = inv[i].field ]_vars
  /\ [](\A i \in ConcInvocations :
          inv[i].pc # "idle" =>
            /\ Len(StageLog(i, "resolve")) <= 1
            /\ \A stage \in Stages :
                 IsPrefix(CalledIn(i, stage), callbacks[inv[i].field][stage]))
  /\ \A i \in ConcInvocations : Running(i) ~> Completed(i)

\* an invocation that went through the before hooks, the resolver and the
\* after hook has returned while the other one is still running
C23_Witness ==
  /\ inv[1].pc = "returned"
  /\ Len(StageLog(1, "before")) = 2
  /\ Len(StageLog(1, "resolve")) = 1
  /\ Len(StageLog(1, "after")) = 1
  /\ Running(2)

====
